---- MODULE Spec2Model ----
(***************************************************************************)
(* A model of pygenometracks/tracks/LinksTrack.py: the link file parser    *)
(* (process_link_file), the track set-up (set_properties_defaults) and the *)
(* render pass (plot, plot_arcs, plot_triangles, plot_loops).              *)
(*                                                                         *)
(* A line of the link file is a record of its tab separated fields, kept   *)
(* as text; int() and float() are modelled as parsers of that text.        *)
(* Coordinates are even numbers, so that the midpoints (start + end) / 2   *)
(* of use_middle are whole numbers.                                        *)
(*                                                                         *)
(* The index is the dict of intervaltree.IntervalTree the code builds: a   *)
(* tree is a set of Interval(begin, end, data), add() keeps one copy of    *)
(* equal intervals and raises ValueError on begin >= end, tree[a:b] gives  *)
(* the intervals with begin < b and end > a, and intervals are ordered by  *)
(* begin, then end, then data.                                             *)
(*                                                                         *)
(* Left out: the log messages, the pre-filter of the file by plot_regions  *)
(* (temp_file_from_intersect), min_value/max_value, orientation, the       *)
(* colorbar of plot_y_axis and the coordinates of the patches.             *)
(***************************************************************************)
EXTENDS Integers, Sequences, FiniteSets, TLC

\* ------------------------------------------------------------------ bounds

\* the number of lines of the link file
MaxLines == 2

\* ------------------------------------------------------------- text fields

\* the numbers a coordinate or score field of the model can spell
Numerals == 0..9

\* int(field): the fields that spell a whole number
IsInt(field) == \E n \in Numerals : ToString(n) = field

int(field) == CHOOSE n \in Numerals : ToString(n) = field

\* the score values a link can carry in interval.data[4]
Float(n) == [t |-> "float", n |-> n, s |-> ""]

\* float('nan') makes a new object on every call; id tells them apart
NaNObject(id) == [t |-> "nan", n |-> id, s |-> ""]

\* np.nan is one object
NP_NAN == [t |-> "np.nan", n |-> 0, s |-> ""]

\* the text of the 7th field, kept unparsed
Str(field) == [t |-> "str", n |-> 0, s |-> field]

\* float(field) succeeds on numerals and on "nan"
IsFloat(field) == IsInt(field) \/ field = "nan"

float(field, id) == IF field = "nan" THEN NaNObject(id) ELSE Float(int(field))

\* float('inf'), float('-inf') and the finite scores, for min_score/max_score
PosInf == [inf |-> 1, n |-> 0]

NegInf == [inf |-> -1, n |-> 0]

Finite(n) == [inf |-> 0, n |-> n]

\* score < bound, for a parsed score and a running bound; false on NaN
ScoreLess(score, bound) ==
    /\ score.t = "float"
    /\ \/ bound.inf = 1
       \/ bound.inf = 0 /\ score.n < bound.n

\* score > bound
ScoreGreater(score, bound) ==
    /\ score.t = "float"
    /\ \/ bound.inf = -1
       \/ bound.inf = 0 /\ score.n > bound.n

\* ------------------------------------------------------------------- lines

\* a line with nf tab separated fields; the fields it lacks are ""
Line(nf, c1, s1, e1, c2, s2, e2, sc) ==
    [kind |-> "fields", nf |-> nf, chrom1 |-> c1, start1 |-> s1, end1 |-> e1,
     chrom2 |-> c2, start2 |-> s2, end2 |-> e2, score |-> sc]

\* a line starting with 'browser', 'track' or '#'
CommentLine ==
    [kind |-> "comment", nf |-> 1, chrom1 |-> "", start1 |-> "", end1 |-> "",
     chrom2 |-> "", start2 |-> "", end2 |-> "", score |-> ""]

\* no line read yet
NoLine ==
    [kind |-> "none", nf |-> 0, chrom1 |-> "", start1 |-> "", end1 |-> "",
     chrom2 |-> "", start2 |-> "", end2 |-> "", score |-> ""]

\* a line with only five fields
ShortLine == Line(5, "chr1", "0", "2", "chr1", "2", "", "")

\* ------------------------------------------------------------------- state

VARIABLES
    properties,       \* self.properties: the options of the track
    pc,               \* where the track is: "start", "reading", "failed",
                      \* "parsed", "ready"
    file_h,           \* the stream of the link file: "none", "open", "closed"
    line,             \* the line of the loop of process_link_file
    line_number,
    valid_intervals,
    interval_tree,    \* chromosome name -> set of Interval
    has_score,
    min_score,
    max_score,
    err,              \* the exception that ended the parse, "" when none
    score_col,        \* history: the 7th field ("" when absent) of every
                      \* same-chromosome line the loop went through
    colormap,         \* self.colormap: "None" or "ScalarMappable"
    max_height,       \* self.max_height
    region,           \* the arguments of the last plot call
    drawn,            \* the patches the last plot call gave to the axis
    ymax,             \* the y limit the last plot call set on the axis
    ref,              \* history: one earlier plot call and what it drew
    between           \* history: a call with other arguments came after ref

vars == <<properties, pc, file_h, line, line_number, valid_intervals,
          interval_tree, has_score, min_score, max_score, err, score_col,
          colormap, max_height, region, drawn, ymax, ref, between>>

parse_vars == <<line, line_number, valid_intervals, interval_tree, has_score,
                min_score, max_score, err, score_col, file_h>>

plot_vars == <<max_height, region, drawn, ymax, ref, between>>

\* ---------------------------------------------------- process_link_file

Interval(begin, end, data) == [begin |-> begin, end |-> end, data |-> data]

\* Interval.is_null of intervaltree
is_null(iv) == iv.begin >= iv.end

\* the 7th field of a line when it has one
HasScoreField(l) == l.nf >= 7

\* lines 360-364: has_score after the 7th field is looked up
HasScoreAfterLookup(l, hs) == IF HasScoreField(l) THEN hs ELSE FALSE

\* a parser that judges every line on its own
HasScoreAfterFloat_PerLine(l, hs) == IsFloat(l.score)

\* lines 378-385: has_score after float(score) is tried
HasScoreAfterFloat(l, hs) == hs /\ IsFloat(l.score)

\* lines 360-385: the score stored in the payload of line l, read as line id
\* while has_score is hs
StoredScore(l, id, hs) ==
    IF ~HasScoreField(l) THEN NP_NAN
    ELSE IF ~hs THEN Str(l.score)
    ELSE IF IsFloat(l.score) THEN float(l.score, id)
    ELSE NP_NAN

\* a reduction that keeps the last score instead of the smallest
MinAfter_Overwrite(l, id, hs, mn) ==
    IF HasScoreAfterFloat(l, HasScoreAfterLookup(l, hs))
       /\ float(l.score, id).t = "float"
    THEN Finite(int(l.score)) ELSE mn

\* lines 386-388: min_score after line l
MinAfter(l, id, hs, mn) ==
    IF HasScoreAfterFloat(l, HasScoreAfterLookup(l, hs))
       /\ ScoreLess(float(l.score, id), mn)
    THEN Finite(int(l.score)) ELSE mn

\* lines 389-390: max_score after line l
MaxAfter(l, id, hs, mx) ==
    IF HasScoreAfterFloat(l, HasScoreAfterLookup(l, hs))
       /\ ScoreGreater(float(l.score, id), mx)
    THEN Finite(int(l.score)) ELSE mx

\* lines 366-373: the four coordinate fields are whole numbers
CoordinatesAreInt(l) ==
    IsInt(l.start1) /\ IsInt(l.end1) /\ IsInt(l.start2) /\ IsInt(l.end2)

\* a parser without the second assertion
StartsBeforeEnds_FirstOnly(l) == int(l.start1) <= int(l.end1)

\* lines 375-376: the two assertions
StartsBeforeEnds(l) ==
    int(l.start1) <= int(l.end1) /\ int(l.start2) <= int(l.end2)

\* lines 395-397: the two loci are swapped when start2 < start1
SwapLoci(l) == int(l.start2) < int(l.start1)

\* the payload [start1, end1, start2, end2, score] after the swap
Payload(l, score) ==
    IF SwapLoci(l)
    THEN <<int(l.start2), int(l.end2), int(l.start1), int(l.end1), score>>
    ELSE <<int(l.start1), int(l.end1), int(l.start2), int(l.end2), score>>

\* lines 399-405: the key range of the interval of a payload
KeyBegin(data, use_middle) ==
    IF use_middle THEN (data[1] + data[2]) \div 2 ELSE data[1]

KeyEnd(data, use_middle) ==
    IF use_middle THEN (data[3] + data[4]) \div 2 ELSE data[4]

\* the Interval built from line l
IntervalOf(l, id, hs, use_middle) ==
    LET data == Payload(l, StoredScore(l, id, hs))
    IN  Interval(KeyBegin(data, use_middle), KeyEnd(data, use_middle), data)

\* the intervals of a chromosome, none when the index lacks it
TreeOf(tree, chrom) == IF chrom \in DOMAIN tree THEN tree[chrom] ELSE {}

\* lines 392-393 and IntervalTree.add: an interval already in the tree is not
\* added again
TreeAdd(tree, chrom, iv) ==
    [c \in DOMAIN tree \cup {chrom} |->
        IF c = chrom THEN TreeOf(tree, c) \cup {iv} ELSE tree[c]]

\* IntervalTree.add raises ValueError on a null interval that is not yet in
\* the tree
AddRaises(tree, chrom, iv) == iv \notin TreeOf(tree, chrom) /\ is_null(iv)

\* the exception line l ends the parse with, "" when it does not
Raised(l, id, hs, tree, use_middle) ==
    IF l.kind = "comment" THEN ""
    ELSE IF l.nf < 6 THEN "InputError"
    ELSE IF l.chrom1 # l.chrom2 THEN ""
    ELSE IF ~CoordinatesAreInt(l) THEN "InputError"
    ELSE IF ~StartsBeforeEnds(l) THEN "AssertionError"
    ELSE IF AddRaises(tree, l.chrom1, IntervalOf(l, id, hs, use_middle))
         THEN "ValueError"
    ELSE ""

\* the loop skips line l: a comment, or a link between two chromosomes
Skipped(l) == l.kind = "comment" \/ (l.nf >= 6 /\ l.chrom1 # l.chrom2)

\* lines 102-104 and 328-343: set_properties_defaults enters
\* process_link_file, which opens the file
OpenFile ==
    /\ pc = "start"
    /\ pc' = "reading"
    /\ file_h' = "open"
    /\ max_height' = [k |-> "None", n |-> 0, e |-> 0]
    /\ valid_intervals' = 0
    /\ interval_tree' = [c \in {} |-> {}]
    /\ line_number' = 0
    /\ has_score' = TRUE
    /\ max_score' = NegInf
    /\ min_score' = PosInf
    /\ UNCHANGED <<properties, line, err, score_col, colormap, region, drawn,
                   ymax, ref, between>>

\* lines 344-406: one turn of the loop, on line l
ReadLine(l) ==
    /\ pc = "reading"
    /\ line_number < MaxLines
    /\ line_number' = line_number + 1
    /\ line' = l
    /\ LET id == line_number + 1
           raised == Raised(l, id, has_score, interval_tree,
                            properties.use_middle)
           hs1 == HasScoreAfterLookup(l, has_score)
       IN  IF raised # ""
           THEN \* the exception leaves process_link_file: the index and the
                \* score range it was building are lost
                /\ pc' = "failed"
                /\ err' = raised
                /\ interval_tree' = [c \in {} |-> {}]
                /\ valid_intervals' = 0
                /\ has_score' = IF l.nf < 6 THEN has_score
                                ELSE IF raised = "ValueError"
                                     THEN HasScoreAfterFloat(l, hs1)
                                ELSE hs1
                /\ min_score' = PosInf
                /\ max_score' = NegInf
                /\ score_col' = <<>>
                /\ UNCHANGED file_h
           ELSE IF Skipped(l)
           THEN UNCHANGED <<pc, err, interval_tree, valid_intervals,
                            has_score, min_score, max_score, score_col,
                            file_h>>
           ELSE /\ has_score' = HasScoreAfterFloat(l, hs1)
                /\ min_score' = MinAfter(l, id, has_score, min_score)
                /\ max_score' = MaxAfter(l, id, has_score, max_score)
                /\ interval_tree' =
                       TreeAdd(interval_tree, l.chrom1,
                               IntervalOf(l, id, has_score,
                                          properties.use_middle))
                /\ valid_intervals' = valid_intervals + 1
                /\ score_col' = Append(score_col, l.score)
                /\ UNCHANGED <<pc, err, file_h>>
    /\ UNCHANGED <<properties, colormap, max_height, region, drawn, ymax,
                   ref, between>>

\* lines 408-412: the loop is over, the file is closed and the index
\* returned; the loop variable line goes with the frame
CloseFile ==
    /\ pc = "reading"
    /\ pc' = "parsed"
    /\ file_h' = "closed"
    /\ line' = NoLine
    /\ UNCHANGED <<properties, line_number, valid_intervals, interval_tree,
                   has_score, min_score, max_score, err, score_col, colormap,
                   max_height, region, drawn, ymax, ref, between>>

\* ------------------------------------------------ set_properties_defaults

DEFAULT_LINKS_COLOR == "blue"

\* GenomeTrack.process_color with colormap_possible: the value of 'color'
\* names a colormap
is_colormap(color) == color = "RdYlGn"

NoColormap == [k |-> "None", vmin |-> PosInf, vmax |-> NegInf]

ScalarMappable(vmin, vmax) ==
    [k |-> "ScalarMappable", vmin |-> vmin, vmax |-> vmax]

\* lines 105-112: line_width when none was given and scores are missing
LineWidthProperty(p, hs) ==
    IF p.line_width = "None" /\ ~hs THEN "0.5" ELSE p.line_width

\* a set-up that does not look at has_score
UseColormap_IgnoreScore(p, hs) == is_colormap(p.color)

\* lines 114-128: colormap mode is on
UseColormap(p, hs) == is_colormap(p.color) /\ hs

\* lines 118-126: the colour after the fallback
ColorProperty(p, hs) ==
    IF is_colormap(p.color) /\ ~hs THEN DEFAULT_LINKS_COLOR ELSE p.color

\* lines 142-149: ylim is dropped under compact_arcs_level 2
YlimProperty(p) ==
    IF p.compact_arcs_level = "2" /\ p.ylim # <<>> THEN <<>> ELSE p.ylim

\* lines 105-149: what set_properties_defaults does with the parse result
SetPropertiesDefaults ==
    /\ pc = "parsed"
    /\ pc' = "ready"
    /\ properties' = [properties EXCEPT
                        !.line_width = LineWidthProperty(properties, has_score),
                        !.color = ColorProperty(properties, has_score),
                        !.ylim = YlimProperty(properties)]
    /\ colormap' = IF UseColormap(properties, has_score)
                   THEN ScalarMappable(min_score, max_score)
                   ELSE NoColormap
    /\ UNCHANGED <<parse_vars, plot_vars>>

\* -------------------------------------------------------------------- plot

\* a height: n or sqrt(n), times 1.1 e times; "None" before the first pass
Height(k, n) == [k |-> k, n |-> n, e |-> 0]

ZeroHeight == Height("lin", 0)

HALF_HEIGHT_COMPACT == 1000

RECURSIVE Power(_, _)
Power(b, e) == IF e = 0 THEN 1 ELSE b * Power(b, e - 1)

\* the square of the value of a height, times 100^(ea + eb)
SquareOf(h, other) ==
    (IF h.k = "sqrt" THEN h.n ELSE h.n * h.n)
    * Power(121, h.e) * Power(100, other.e)

\* a > b on heights
HeightGreater(a, b) == SquareOf(a, b) > SquareOf(b, a)

\* max_height *= 1.1
Times11(h) == IF h.n = 0 THEN h ELSE [h EXCEPT !.e = @ + 1]

\* lines 236-242 and 264-269: the height of an arc or a triangle
HalfHeight(iv, level) ==
    IF level = "1" THEN Height("sqrt", iv.end - iv.begin)
    ELSE IF level = "2" THEN Height("lin", HALF_HEIGHT_COMPACT)
    ELSE Height("lin", iv.end - iv.begin)

\* line 302: y2 of the rectangle of a loop
LoopHeight(iv) == Height("lin", iv.data[4] - iv.data[1])

\* the height a link of the track adds to the pass
LinkHeight(iv, p) ==
    IF p.links_type = "loops" THEN LoopHeight(iv)
    ELSE HalfHeight(iv, p.compact_arcs_level)

\* lines 244-245, 284-285, 319-320
HigherOf(h, mh) == IF HeightGreater(h, mh) THEN h ELSE mh

\* lines 180-183: self.line_width for a link
LineWidthOf(iv, p) ==
    IF p.line_width # "None"
    THEN [k |-> "float", v |-> p.line_width, score |-> NP_NAN]
    ELSE [k |-> "0.5 * sqrt", v |-> "", score |-> iv.data[5]]

\* lines 248-253, 271-276, 307-312: the colour of a link
ColorOf(iv, p, cm) ==
    IF cm.k # "None"
    THEN [k |-> "to_rgba", color |-> "", score |-> iv.data[5]]
    ELSE [k |-> "color", color |-> p.color, score |-> NP_NAN]

\* the patch a link gives to the axis
Patch(iv, p, cm) ==
    [shape |-> p.links_type, interval |-> iv, rgb |-> ColorOf(iv, p, cm),
     linewidth |-> LineWidthOf(iv, p)]

\* utilities.change_chrom_names: the other spelling of a chromosome name
change_chrom_names(chrom) ==
    IF chrom = "chr1" THEN "1"
    ELSE IF chrom = "1" THEN "chr1"
    ELSE IF chrom = "chr2" THEN "2"
    ELSE "chr2"

\* lines 161-169: the name the index knows the chromosome by, "" when none
ChromInTree(tree, chrom) ==
    IF chrom \in DOMAIN tree THEN chrom
    ELSE IF change_chrom_names(chrom) \in DOMAIN tree
         THEN change_chrom_names(chrom)
    ELSE ""

\* IntervalTree.__getitem__ with a slice: the intervals that overlap
\* [start, stop)
Overlaps(iv, start, stop) == iv.begin < stop /\ iv.end > start

Overlap(S, start, stop) ==
    IF start >= stop THEN {} ELSE {iv \in S : Overlaps(iv, start, stop)}

\* Interval.__lt__ : by begin, then end, then data
KeyLess(a, b) == a.begin < b.begin \/ (a.begin = b.begin /\ a.end < b.end)

SameKey(a, b) == a.begin = b.begin /\ a.end = b.end

CoordLess(d1, d2) ==
    \E i \in 1..4 : d1[i] < d2[i] /\ \A j \in 1..(i - 1) : d1[j] = d2[j]

SameCoords(d1, d2) == \A i \in 1..4 : d1[i] = d2[i]

\* the two scores are ordered by <: two numbers, or two texts; a NaN is not,
\* and a number against a text raises TypeError, which Interval.__cmp__
\* turns into a tie
ScoreComparable(s1, s2) ==
    \/ s1.t = "float" /\ s2.t = "float"
    \/ s1.t = "str" /\ s2.t = "str"

\* the order of the texts of the model: digits, then "nan", then "x"
StrRank(field) ==
    IF IsInt(field) THEN int(field) ELSE IF field = "nan" THEN 10 ELSE 11

ScoreLt(s1, s2) ==
    IF s1.t = "float" THEN s1.n < s2.n ELSE StrRank(s1.s) < StrRank(s2.s)

\* every two intervals of S that tie with iv up to the score have ordered
\* scores
TiesOrdered(S, iv) ==
    \A x, y \in S :
        (SameKey(x, iv) /\ SameCoords(x.data, iv.data)
         /\ SameKey(y, iv) /\ SameCoords(y.data, iv.data))
        => ScoreComparable(x.data[5], y.data[5])

\* a comes before b in every sorted(S)
Before(S, a, b) ==
    \/ KeyLess(a, b)
    \/ SameKey(a, b) /\ CoordLess(a.data, b.data)
    \/ /\ SameKey(a, b) /\ SameCoords(a.data, b.data)
       /\ TiesOrdered(S, a)
       /\ ScoreLt(a.data[5], b.data[5])

\* a pass that draws the links from the last begin to the first
sorted_Reversed(S) ==
    CHOOSE seq \in [1..Cardinality(S) -> S] :
        /\ \A i, j \in 1..Cardinality(S) : i # j => seq[i] # seq[j]
        /\ \A i, j \in 1..Cardinality(S) : i < j => ~Before(S, seq[i], seq[j])

\* sorted(S): the order of intervals that tie is the order the set hands
\* them out in, which is the same on every call
sorted(S) ==
    CHOOSE seq \in [1..Cardinality(S) -> S] :
        /\ \A i, j \in 1..Cardinality(S) : i # j => seq[i] # seq[j]
        /\ \A i, j \in 1..Cardinality(S) : i < j => ~Before(S, seq[j], seq[i])

\* a filter that also drops the intervals that touch the bounds of the region
Engulfs_Inclusive(iv, region_start, region_end) ==
    iv.begin <= region_start /\ iv.end >= region_end

\* line 177: the interval starts before and ends after the plotted region
Engulfs(iv, region_start, region_end) ==
    iv.begin < region_start /\ iv.end > region_end

\* line 173
ArcsInRegion(tree, chrom, region_start, region_end) ==
    sorted(Overlap(tree[chrom], region_start, region_end))

\* lines 175-192: the links drawn, in order
RECURSIVE Kept(_, _, _)
Kept(arcs, region_start, region_end) ==
    IF arcs = <<>> THEN <<>>
    ELSE IF Engulfs(Head(arcs), region_start, region_end)
         THEN Kept(Tail(arcs), region_start, region_end)
    ELSE <<Head(arcs)>> \o Kept(Tail(arcs), region_start, region_end)

\* lines 175-192: self.max_height after the links are drawn
RECURSIVE HeightAfter(_, _, _)
HeightAfter(links, p, mh) ==
    IF links = <<>> THEN mh
    ELSE HeightAfter(Tail(links), p, HigherOf(LinkHeight(Head(links), p), mh))

\* a pass that starts from the height the pass before it left
HeightAtStart_Keep(mh) == mh

\* line 158: self.max_height at the start of a pass
HeightAtStart(mh) == ZeroHeight

\* lines 197-203: the y limit of the axis
Ymax(p, mh) ==
    IF p.ylim = <<>> THEN mh
    ELSE IF p.compact_arcs_level = "1" THEN Height("sqrt", p.ylim[1])
    ELSE Height("lin", p.ylim[1])

NoRegion == [chrom |-> "", start |-> 0, end |-> 0]

NoRef == [set |-> FALSE, region |-> NoRegion, drawn |-> <<>>,
          max_height |-> ZeroHeight]

\* lines 151-208: one render pass; remember keeps the call for later
\* comparison
plot(chrom_region, region_start, region_end, remember) ==
    /\ pc = "ready"
    /\ LET rg == [chrom |-> chrom_region, start |-> region_start,
                  end |-> region_end]
           chrom == ChromInTree(interval_tree, chrom_region)
           links == IF chrom = "" THEN <<>>
                    ELSE Kept(ArcsInRegion(interval_tree, chrom,
                                           region_start, region_end),
                              region_start, region_end)
           mh == IF chrom = "" THEN HeightAtStart(max_height)
                 ELSE Times11(HeightAfter(links, properties,
                                          HeightAtStart(max_height)))
           patches == [i \in 1..Len(links) |->
                          Patch(links[i], properties, colormap)]
       IN  /\ region' = rg
           /\ max_height' = mh
           /\ drawn' = patches
           /\ ymax' = IF chrom = "" THEN ymax ELSE Ymax(properties, mh)
           /\ ref' = IF remember /\ ~ref.set
                     THEN [set |-> TRUE, region |-> rg, drawn |-> patches,
                           max_height |-> mh]
                     ELSE ref
           /\ between' = (between \/ (ref.set /\ ref.region # rg))
    /\ UNCHANGED <<properties, pc, colormap, parse_vars>>

\* ------------------------------------------------------------------ inputs

\* DEFAULTS_PROPERTIES, lines 67-78
Defaults ==
    [links_type |-> "arcs", line_width |-> "None",
     color |-> DEFAULT_LINKS_COLOR, ylim |-> <<>>,
     compact_arcs_level |-> "0", use_middle |-> FALSE]

\* the options of the tracks whose parse is checked
ParseProps == {[Defaults EXCEPT !.use_middle = m] : m \in BOOLEAN}

\* the options of the tracks whose geometry is checked
GeometryProps ==
    {[Defaults EXCEPT !.links_type = t, !.compact_arcs_level = c,
                      !.use_middle = m, !.ylim = y] :
        t \in {"arcs", "triangles", "loops"}, c \in {"0", "1", "2"},
        m \in BOOLEAN, y \in {<<>>}}

\* the options of the tracks whose colours are checked
ColorProps ==
    {[Defaults EXCEPT !.links_type = t, !.color = c, !.line_width = w] :
        t \in {"arcs", "triangles", "loops"}, c \in {"red", "RdYlGn"},
        w \in {"None", "3"}}

\* the options of the tracks whose passes are replayed
ReplayProps ==
    {[Defaults EXCEPT !.use_middle = m] : m \in BOOLEAN}
    \cup {[Defaults EXCEPT !.compact_arcs_level = c, !.ylim = <<4>>] :
             c \in {"1", "2"}}

\* the 7th field of the lines: none, not a number, NaN, numbers
ScoreFields == {"", "x", "nan", "0", "1"}

\* a line with six fields, or seven when sc is not ""
Link(c1, s1, e1, c2, s2, e2, sc) ==
    Line(IF sc = "" THEN 6 ELSE 7, c1, s1, e1, c2, s2, e2, sc)

\* lines that differ in their score, with the loci in either order
ScoreLines ==
    {Link(c, q[1], q[2], c, q[3], q[4], sc) :
        c \in {"chr1", "chr2"},
        q \in {<<"0", "2", "2", "4">>, <<"2", "4", "0", "2">>},
        sc \in ScoreFields}

\* lines that differ in their coordinates
KeyLines ==
    {Link("chr1", s1, e1, "chr1", s2, e2, "") :
        s1 \in {"0", "2", "4"}, e1 \in {"0", "2", "4"},
        s2 \in {"0", "2", "4"}, e2 \in {"0", "2", "4"}}

\* lines between two chromosomes, and lines with a field that is no number
OddLines ==
    {CommentLine, ShortLine,
     Link("chr1", "0", "2", "chr2", "2", "4", "1"),
     Link("chr1", "0", "2", "chr2", "2", "4", ""),
     Link("chr1", "x", "2", "chr2", "2", "4", "1"),
     Link("chr2", "4", "2", "chr1", "2", "4", ""),
     Link("chr1", "x", "2", "chr1", "2", "4", "1"),
     Link("chr1", "0", "x", "chr1", "2", "4", ""),
     Link("chr2", "0", "2", "chr2", "x", "4", "0"),
     Link("chr2", "0", "2", "chr2", "2", "x", "x"),
     Link("chr2", "4", "2", "chr2", "2", "4", "1")}

ParseLines == ScoreLines \cup KeyLines \cup OddLines

\* the lines of the link files that are drawn: links of several spans, two
\* of them with the same span, two that differ in their score alone, one
\* with its loci in the other order, one without score, one with a locus
\* inside the other
TrackLines ==
    {Link("chr1", "2", "4", "chr1", "4", "6", "1"),
     Link("chr1", "0", "2", "chr1", "6", "8", "4"),
     Link("chr1", "0", "4", "chr1", "4", "8", "1"),
     Link("chr1", "0", "4", "chr1", "4", "8", "4"),
     Link("chr1", "6", "8", "chr1", "2", "2", ""),
     Link("chr1", "2", "4", "chr1", "4", "6", "x"),
     Link("chr1", "0", "8", "chr1", "2", "4", "1")}

\* the windows and chromosome names plot is called with
Windows == {<<2, 6>>, <<0, 8>>, <<3, 5>>}

\* the windows of the passes that are replayed
ReplayWindows == {<<2, 6>>, <<0, 8>>}

PlotChroms == {"chr1", "1", "chr2"}

\* ------------------------------------------------------------ specification

InitWith(props) ==
    /\ properties \in props
    /\ pc = "start"
    /\ file_h = "none"
    /\ line = NoLine
    /\ line_number = 0
    /\ valid_intervals = 0
    /\ interval_tree = [c \in {} |-> {}]
    /\ has_score = TRUE
    /\ min_score = PosInf
    /\ max_score = NegInf
    /\ err = ""
    /\ score_col = <<>>
    /\ colormap = NoColormap
    /\ max_height = Height("None", 0)
    /\ region = NoRegion
    /\ drawn = <<>>
    /\ ymax = Height("None", 0)
    /\ ref = NoRef
    /\ between = FALSE

Init == InitWith(ParseProps)

ReadParseLine == \E l \in ParseLines : ReadLine(l)

Next == OpenFile \/ ReadParseLine \/ CloseFile

\* process_link_file on the lines of ParseLines
Spec == Init /\ [][Next]_vars

ReadTrackLine == \E l \in TrackLines : ReadLine(l)

Plot == \E c \in PlotChroms, w \in Windows : plot(c, w[1], w[2], FALSE)

NextTrack ==
    OpenFile \/ ReadTrackLine \/ CloseFile \/ SetPropertiesDefaults \/ Plot

InitGeometry == InitWith(GeometryProps)

\* the set-up of a track and its render passes, over the geometry options
SpecGeometry == InitGeometry /\ [][NextTrack]_vars

InitColor == InitWith(ColorProps)

\* the set-up of a track and its render passes, over the colour options
SpecColor == InitColor /\ [][NextTrack]_vars

Replay ==
    \E c \in PlotChroms, w \in ReplayWindows, remember \in BOOLEAN :
        plot(c, w[1], w[2], remember)

NextReplay ==
    OpenFile \/ ReadTrackLine \/ CloseFile \/ SetPropertiesDefaults \/ Replay

InitReplay == InitWith(ReplayProps)

\* the render passes of a track, one of them kept for comparison
SpecReplay == InitReplay /\ [][NextReplay]_vars

\* ------------------------------------------------------------------ claims

\* every interval of the index
AllIntervals == UNION {interval_tree[c] : c \in DOMAIN interval_tree}

\* the line just read is a link on one chromosome with six fields, or seven
\* with a score float() reads, and whole coordinates with start <= end
WellFormedLink(l) ==
    /\ l.kind = "fields"
    /\ l.nf >= 6
    /\ l.chrom1 = l.chrom2
    /\ l.nf = 6 \/ IsFloat(l.score)
    /\ IsInt(l.start1) /\ IsInt(l.end1) /\ IsInt(l.start2) /\ IsInt(l.end2)
    /\ int(l.start1) <= int(l.end1)
    /\ int(l.start2) <= int(l.end2)

\* C1: every line with six fields, or seven with a score that float() reads,
\* and chrom1 = chrom2 (and coordinates that pass the parser's own checks)
\* adds exactly one interval to the index of its chromosome, and every stored
\* payload has payload[0] <= payload[2].
C1_OneIntervalPerLine ==
    [][(pc = "reading" /\ line_number' = line_number + 1
        /\ WellFormedLink(line'))
       => /\ pc' = "reading"
          /\ Cardinality(TreeOf(interval_tree', line'.chrom1))
               = Cardinality(TreeOf(interval_tree, line'.chrom1)) + 1
          /\ \A iv \in UNION {interval_tree'[c] : c \in DOMAIN interval_tree'} :
                 iv.data[1] <= iv.data[3]]_vars

\* the 7th field is missing, or float() does not read it
Unusable(field) == ~IsFloat(field)

\* C2: once a record (a same-chromosome link the loop goes through) has no
\* score field, or a score float() does not read, has_score is false, whatever
\* the scores of the records before and after it; has_score never turns from
\* false to true during the parse, and is false in what the parse returns.
C2_HasScoreStaysFalse ==
    /\ []((pc \in {"reading", "parsed"}
           /\ \E i \in 1..Len(score_col) : Unusable(score_col[i]))
          => ~has_score)
    /\ [][(pc = "reading" /\ ~has_score) => ~has_score']_vars

\* a record without usable score was followed by a record with a score, and
\* the parse has returned
C2_Witness ==
    /\ pc = "parsed"
    /\ Len(score_col) >= 2
    /\ Unusable(score_col[1])
    /\ IsFloat(score_col[2])
    /\ ~has_score

\* the line has fewer than six fields, a coordinate that is no whole number,
\* or a locus with start > end
Malformed(l) ==
    \/ l.nf < 6
    \/ /\ l.nf >= 6
       /\ \/ ~(IsInt(l.start1) /\ IsInt(l.end1)
               /\ IsInt(l.start2) /\ IsInt(l.end2))
          \/ int(l.start1) > int(l.end1)
          \/ int(l.start2) > int(l.end2)

\* C3 as stated: the parse aborts on a line exactly when the line has fewer
\* than six fields, a coordinate that is no whole number, or start > end for
\* a locus.
C3_AbortsIffMalformed ==
    line.kind = "fields" => ((pc = "failed") <=> Malformed(line))

\* the key range of the link of line l is empty: the begin of its index key
\* is not before the end
EmptyKeyRange(l, use_middle) ==
    LET s1 == int(l.start1)
        e1 == int(l.end1)
        s2 == int(l.start2)
        e2 == int(l.end2)
    IN  IF use_middle
        THEN IF s2 < s1 THEN s1 + e1 <= s2 + e2 ELSE s2 + e2 <= s1 + e1
        ELSE IF s2 < s1 THEN e1 <= s2 ELSE e2 <= s1

\* C3 amended: the parse aborts on a line exactly when the line has fewer
\* than six fields, or is a same-chromosome line with a coordinate that is
\* no whole number, with start > end for a locus, or with an empty key range
\* (which the interval structure refuses); a line between two chromosomes
\* never aborts the parse, whatever its coordinates.
C3_AbortsIffMalformedRecord ==
    line.kind = "fields"
    => ((pc = "failed")
        <=> \/ line.nf < 6
            \/ /\ line.nf >= 6
               /\ line.chrom1 = line.chrom2
               /\ \/ Malformed(line)
                  \/ EmptyKeyRange(line, properties.use_middle))

\* a line between two chromosomes with a coordinate that is no whole number
\* was read and the parse goes on
C3_Witness ==
    /\ pc = "reading"
    /\ line.kind = "fields"
    /\ line.nf >= 6
    /\ line.chrom1 # line.chrom2
    /\ Malformed(line)

\* C4: once the parse has ended, by its return or by an exception, the file
\* stream is closed.
C4_StreamClosedOnExit == pc \in {"parsed", "failed"} => file_h = "closed"

Min2(a, b) == IF a < b THEN a ELSE b

Max2(a, b) == IF a > b THEN a ELSE b

\* C5: without use_middle every stored interval begins at the smallest start
\* and ends at the largest end of its two loci.
C5_SpanKeyIsMinStartMaxEnd ==
    ~properties.use_middle
    => \A iv \in AllIntervals :
           /\ iv.begin = Min2(iv.data[1], iv.data[3])
           /\ iv.end = Max2(iv.data[2], iv.data[4])

\* the smallest and the largest number of a set, infinite when it is empty
MinOf(S) == IF S = {} THEN PosInf
            ELSE Finite(CHOOSE n \in S : \A m \in S : n <= m)

MaxOf(S) == IF S = {} THEN NegInf
            ELSE Finite(CHOOSE n \in S : \A m \in S : n >= m)

\* the numbers among the scores of all records
AllScores ==
    {int(score_col[i]) : i \in {j \in 1..Len(score_col) : IsInt(score_col[j])}}

\* C6 as stated: the returned min_score and max_score are the smallest and
\* largest score over every record whose 7th field float() reads, wherever
\* the record stands in the file.
C6_ReducesAllScores ==
    pc = "parsed"
    => min_score = MinOf(AllScores) /\ max_score = MaxOf(AllScores)

\* the numbers among the scores of the records that come before the first
\* record without usable score
LeadingScores ==
    {int(score_col[i]) :
        i \in {j \in 1..Len(score_col) :
                  /\ IsInt(score_col[j])
                  /\ \A k \in 1..j : ~Unusable(score_col[k])}}

\* C6 amended: the returned min_score and max_score are the smallest and
\* largest score over the records that come before the first record without
\* usable score; the scores after that record are not read any more.
C6_ReducesLeadingScores ==
    pc = "parsed"
    => min_score = MinOf(LeadingScores) /\ max_score = MaxOf(LeadingScores)

\* a scored record that comes after a record without usable score was left
\* out of the reduction
C6_Witness ==
    /\ pc = "parsed"
    /\ Len(score_col) = 2
    /\ Unusable(score_col[1])
    /\ IsInt(score_col[2])
    /\ min_score = PosInf

\* a pass has been drawn on a chromosome of the index
PassDrawn ==
    /\ pc = "ready"
    /\ region # NoRegion
    /\ ChromInTree(interval_tree, region.chrom) # ""

\* the intervals of the chromosome of the last pass
RegionIntervals == interval_tree[ChromInTree(interval_tree, region.chrom)]

\* the intervals the last pass drew
DrawnIntervals == {drawn[i].interval : i \in 1..Len(drawn)}

\* C7: in a pass on a window of a chromosome of the index, a stored interval
\* whose key range is the window is drawn, and a stored interval that begins
\* before the window and ends after it is not drawn.
C7_WindowEqualDrawnEngulfingSkipped ==
    PassDrawn
    => \A iv \in RegionIntervals :
           /\ (iv.begin = region.start /\ iv.end = region.end)
              => iv \in DrawnIntervals
           /\ (iv.begin < region.start /\ iv.end > region.end)
              => iv \notin DrawnIntervals

\* a pass drew an interval equal to its window and left out one around it
C7_Witness ==
    /\ PassDrawn
    /\ \E iv \in RegionIntervals :
           iv.begin = region.start /\ iv.end = region.end
           /\ iv \in DrawnIntervals
    /\ \E iv \in RegionIntervals :
           iv.begin < region.start /\ iv.end > region.end

\* C8: colormap mode is on only when the parse returned has_score; a
\* colormap asked for without scores leaves the track ready, with the default
\* colour and no colormap; and every score a pass hands to the colormap is a
\* float that float() made.
C8_ColormapOnlyWithScores ==
    /\ [](pc = "ready"
          => /\ colormap.k # "None" => has_score
             /\ ~has_score
                => (colormap.k = "None" /\ ~is_colormap(properties.color))
             /\ \A i \in 1..Len(drawn) :
                    drawn[i].rgb.k = "to_rgba"
                    => drawn[i].rgb.score.t \in {"float", "nan"})
    /\ [][(pc = "parsed" /\ is_colormap(properties.color) /\ ~has_score)
          => /\ pc' = "ready"
             /\ colormap'.k = "None"
             /\ properties'.color = DEFAULT_LINKS_COLOR]_vars

\* a track that asked for a colormap and has no scores drew links in the
\* default colour
C8_Witness ==
    /\ pc = "ready"
    /\ ~has_score
    /\ properties.color = DEFAULT_LINKS_COLOR
    /\ drawn # <<>>
    /\ \A i \in 1..Len(drawn) :
           drawn[i].rgb.k = "color" /\ drawn[i].rgb.color = DEFAULT_LINKS_COLOR

\* C9: no pass changes the index, and a pass with the chromosome and window
\* of an earlier pass draws the same links in the same order, sorted by
\* key_begin, and ends with the same max_height, whatever passes came
\* between the two.
C9_PassesRepeatAndKeepIndex ==
    /\ []((pc = "ready" /\ ref.set /\ region = ref.region)
          => /\ drawn = ref.drawn
             /\ max_height = ref.max_height
             /\ \A i, j \in 1..Len(drawn) :
                    i < j => drawn[i].interval.begin <= drawn[j].interval.begin)
    /\ [][pc = "ready" => interval_tree' = interval_tree]_vars

\* a pass was repeated after a pass with other arguments, and drew two links
\* with different begins
C9_Witness ==
    /\ pc = "ready"
    /\ ref.set
    /\ between
    /\ region = ref.region
    /\ Len(drawn) >= 2
    /\ drawn[1].interval.begin # drawn[2].interval.begin

\* the largest number of a set of numbers
Largest(S) == CHOOSE n \in S : \A m \in S : n >= m

\* the widths of the intervals the last pass drew
DrawnWidths ==
    {drawn[i].interval.end - drawn[i].interval.begin : i \in 1..Len(drawn)}

\* C10: for arcs and triangles, after a pass on a chromosome of the index,
\* max_height is 1.1 times the largest height among the links drawn, 0 when
\* none is drawn; the height of a link is its key width at compaction level
\* 0, the square root of that width at level 1, and 1000 at level 2. The
\* heights of earlier passes do not count.
C10_MaxHeightOfThePass ==
    (PassDrawn /\ properties.links_type \in {"arcs", "triangles"})
    => max_height =
           IF drawn = <<>> THEN [k |-> "lin", n |-> 0, e |-> 0]
           ELSE IF properties.compact_arcs_level = "0"
                THEN [k |-> "lin", n |-> Largest(DrawnWidths), e |-> 1]
           ELSE IF properties.compact_arcs_level = "1"
                THEN [k |-> "sqrt", n |-> Largest(DrawnWidths), e |-> 1]
           ELSE [k |-> "lin", n |-> 1000, e |-> 1]

\* a pass drew two links of different widths under compaction level 1
C10_Witness ==
    /\ PassDrawn
    /\ properties.links_type = "triangles"
    /\ properties.compact_arcs_level = "1"
    /\ Cardinality(DrawnWidths) >= 2

====
